---- MODULE Spec2Model ----
(***************************************************************************)
(* Connect-4 move selection of Player.py (class AIPlayer): alpha-beta and  *)
(* expectimax searches over a 6x7 board, driven by evaluation_function.    *)
(*                                                                         *)
(* The recursion of the searches is modelled by an explicit call stack.    *)
(* Every stack frame owns a numpy array; arrays live in `heap` and frames  *)
(* hold references to them, so that board.copy() and in-place writes       *)
(* frame[row][col] = x have the aliasing behaviour they have in Python.    *)
(*                                                                         *)
(* Scores are numbers with -inf/+inf; the averages of expmin_value are     *)
(* kept as exact fractions n/d (d = 0 encodes an infinity).                *)
(***************************************************************************)
EXTENDS Integers, Sequences, FiniteSets, TLC

VARIABLES
    input,          \* the caller's board as it was when the decision call began
    player_number,  \* self.player_number
    heap,           \* the arrays: heap[1] is the caller's board object
    stack,          \* call stack, the running function last
    status,         \* "idle", "running", "returned" or "error" (exception)
    result,         \* <<column>> once a decision call returned, else <<>>
    alg,            \* the entry point that was called
    pruned          \* some alphabeta_*_value call returned early (lines 90, 128)

vars == <<input, player_number, heap, stack, status, result, alg, pruned>>

MAX_DEPTH == 30
NumRows == 6
NumCols == 7

\* Bounds of the boards the decision calls are tried on.
MaxEmpty == 3
MaxExtra == 1

Rows == 0 .. (NumRows - 1)
Cols == 0 .. (NumCols - 1)

----------------------------------------------------------------------------
(* Scores *)

RECURSIVE GCD(_, _)
GCD(a, b) == IF b = 0 THEN a ELSE GCD(b, a % b)

Abs(x) == IF x < 0 THEN -x ELSE x

Rat(n, d) == LET g == GCD(Abs(n), d) IN [n |-> n \div g, d |-> d \div g]

IntVal(x) == [n |-> x, d |-> 1]

PosInf == [n |-> 1, d |-> 0]

NegInf == [n |-> -1, d |-> 0]

Lt(a, b) == IF a.d = 0 /\ b.d = 0 THEN a.n < b.n ELSE a.n * b.d < b.n * a.d

Le(a, b) == ~Lt(b, a)

\* Python's max(a, b) / min(a, b): the first argument unless the second is
\* strictly better.
max(a, b) == IF Lt(a, b) THEN b ELSE a

min(a, b) == IF Lt(b, a) THEN b ELSE a

Add(a, b) == Rat(a.n * b.d + b.n * a.d, a.d * b.d)

Mul(a, b) == Rat(a.n * b.n, a.d * b.d)

----------------------------------------------------------------------------
(* Helper functions of AIPlayer *)

None == "None"

get_opponent(player) == IF player = 1 THEN 2 ELSE 1

get_valid_cols(board) ==
    SelectSeq([k \in 1 .. NumCols |-> k - 1],
              LAMBDA col : \E r \in Rows : board[r][col] = 0)

get_valid_row(board, col) ==
    IF \E r \in Rows : board[r][col] = 0
    THEN CHOOSE row \in Rows :
            /\ board[row][col] = 0
            /\ \A q \in Rows : q < row => board[q][col] # 0
    ELSE None

----------------------------------------------------------------------------
(* Static evaluation *)

count(frame, x) == Cardinality({k \in 1 .. Len(frame) : frame[k] = x})

eval_frame(frame, player, opponent) ==
    LET own ==
            IF count(frame, player) = 4 THEN 100
            ELSE IF count(frame, player) = 3 /\ count(frame, 0) = 1 THEN 69
            ELSE IF count(frame, player) = 2 /\ count(frame, 0) = 2 THEN 30
            ELSE IF count(frame, player) = 1 /\ count(frame, 0) = 3 THEN 5
            ELSE 0
        other ==
            IF count(frame, opponent) = 4 THEN 95
            ELSE IF count(frame, opponent) = 3 /\ count(frame, 0) = 1 THEN 80
            ELSE IF count(frame, opponent) = 2 /\ count(frame, 0) = 2 THEN 30
            ELSE IF count(frame, opponent) = 1 /\ count(frame, 0) = 3 THEN 5
            ELSE 0
    IN  own - other

\* for row in range(0, 6): for col in range(0, 7-3): row_arr[col:col+4]
HorizontalFrames(board) ==
    [k \in 1 .. (NumRows * (NumCols - 3)) |->
        LET row == (k - 1) \div (NumCols - 3)
            col == (k - 1) % (NumCols - 3)
        IN  [i \in 1 .. 4 |-> board[row][col + i - 1]]]

\* for col in range(0, 7): for row in range(0, 6-3): col_arr[row:row+4]
VerticalFrames(board) ==
    [k \in 1 .. (NumCols * (NumRows - 3)) |->
        LET col == (k - 1) \div (NumRows - 3)
            row == (k - 1) % (NumRows - 3)
        IN  [i \in 1 .. 4 |-> board[row + i - 1][col]]]

\* for row in range(0, 6-3): for col in range(0, 7-3): board[row+i][col+i]
DiagonalFrames(board) ==
    [k \in 1 .. ((NumRows - 3) * (NumCols - 3)) |->
        LET row == (k - 1) \div (NumCols - 3)
            col == (k - 1) % (NumCols - 3)
        IN  [i \in 1 .. 4 |-> board[row + i - 1][col + i - 1]]]

\* for row in range(0, 6-3): for col in range(0, 7-3): board[row+3-i][col+1]
SecondDiagonalFrames(board) ==
    [k \in 1 .. ((NumRows - 3) * (NumCols - 3)) |->
        LET row == (k - 1) \div (NumCols - 3)
            col == (k - 1) % (NumCols - 3)
        IN  [i \in 1 .. 4 |-> board[row + 3 - (i - 1)][col + 1]]]

RECURSIVE SumFrames(_, _, _)
SumFrames(frames, player, opponent) ==
    IF frames = <<>> THEN 0
    ELSE eval_frame(Head(frames), player, opponent)
         + SumFrames(Tail(frames), player, opponent)

evaluation_function(board) ==
    LET player == player_number
        opponent == get_opponent(player)
    IN  SumFrames(HorizontalFrames(board), player, opponent)
        + SumFrames(VerticalFrames(board), player, opponent)
        + SumFrames(DiagonalFrames(board), player, opponent)
        + SumFrames(SecondDiagonalFrames(board), player, opponent)

----------------------------------------------------------------------------
(* Arrays and frames *)

\* board.copy(): a new array with the same cells.
copy(h, ref) == [heap |-> Append(h, h[ref]), ref |-> Len(h) + 1]

\* frame_of with the copy forgotten in the alpha-beta functions (frame = board)
frame_of_shared(fn, h, ref) ==
    IF fn \in {"get_alpha_beta_move", "alphabeta_max_value",
               "alphabeta_min_value"}
    THEN [heap |-> h, ref |-> ref]
    ELSE copy(h, ref)

\* `frame = board.copy()` at the head of function fn, called with array ref.
frame_of(fn, h, ref) == copy(h, ref)

SetCell(h, ref, row, col, v) == [h EXCEPT ![ref][row][col] = v]

Recursive == {"alphabeta_max_value", "alphabeta_min_value",
              "expmax_value", "expmin_value"}

\* max_val = -np.inf / min_val = np.inf / min_val = 0
InitialVal(fn) ==
    CASE fn = "alphabeta_min_value" -> PosInf
      [] fn = "expmin_value" -> IntVal(0)
      [] OTHER -> NegInf

\* The piece a function drops in its loop.
Piece(fn) ==
    IF fn \in {"alphabeta_min_value", "expmin_value"}
    THEN get_opponent(player_number)
    ELSE player_number

\* The function called in the loop of fn.
Callee(fn) ==
    CASE fn = "get_alpha_beta_move" -> "alphabeta_min_value"
      [] fn = "alphabeta_max_value" -> "alphabeta_min_value"
      [] fn = "alphabeta_min_value" -> "alphabeta_max_value"
      [] fn = "exp_value" -> "expmax_value"
      [] fn = "expmax_value" -> "expmin_value"
      [] fn = "expmin_value" -> "expmax_value"

Frame(fn, ref, moves, alpha, beta, depth, pc) ==
    [fn |-> fn, ref |-> ref, moves |-> moves, i |-> 1, row |-> 0, col |-> 0,
     alpha |-> alpha, beta |-> beta, depth |-> depth, val |-> InitialVal(fn),
     select_moves |-> <<>>, pc |-> pc, rv |-> InitialVal(fn)]

Top == stack[Len(stack)]

\* if depth >= MAX_DEPTH or len(valid_moves) == 0
CutoffTest(f) == f.depth >= MAX_DEPTH \/ Len(f.moves) = 0

\* if max_val >= beta: return max_val
max_prunes(max_val, beta) == Le(beta, max_val)

\* min_prunes with the comparison turned round (min_val >= alpha)
min_prunes_reversed(min_val, alpha) == Le(alpha, min_val)

\* if min_val <= alpha: return min_val
min_prunes(min_val, alpha) == Le(min_val, alpha)

\* expmin_prob with the number of columns for the number of legal columns
expmin_prob_all_columns(moves) == Rat(1, NumCols)

\* prob = 1 / len(moves)
expmin_prob(moves) == Rat(1, Len(moves))

\* max_select pairing the best value with its position in select_moves
\* instead of its column
max_select_position(select_moves) ==
    IF select_moves = <<>> THEN <<>>
    ELSE LET k == CHOOSE k \in 1 .. Len(select_moves) :
                    /\ \A j \in 1 .. Len(select_moves) :
                          ~Lt(select_moves[k][1], select_moves[j][1])
                    /\ \A j \in 1 .. (k - 1) :
                          Lt(select_moves[j][1], select_moves[k][1])
         IN  <<(<<select_moves[k][1], k - 1>>)>>

\* max_select with a default for the empty list (max(..., default=[alpha, 0]))
max_select_default(select_moves) ==
    IF select_moves = <<>> THEN <<(<<NegInf, 0>>)>>
    ELSE LET k == CHOOSE k \in 1 .. Len(select_moves) :
                    /\ \A j \in 1 .. Len(select_moves) :
                          ~Lt(select_moves[k][1], select_moves[j][1])
                    /\ \A j \in 1 .. (k - 1) :
                          Lt(select_moves[j][1], select_moves[k][1])
         IN  <<select_moves[k]>>

\* max(select_moves, key=lambda x: x[0]): <<best>>, or <<>> for the
\* ValueError that max raises on an empty list.
max_select(select_moves) ==
    IF select_moves = <<>> THEN <<>>
    ELSE LET k == CHOOSE k \in 1 .. Len(select_moves) :
                    /\ \A j \in 1 .. Len(select_moves) :
                          ~Lt(select_moves[k][1], select_moves[j][1])
                    /\ \A j \in 1 .. (k - 1) :
                          Lt(select_moves[j][1], select_moves[k][1])
         IN  <<select_moves[k]>>

----------------------------------------------------------------------------
(* Boards the decision calls are tried on: a full position without a      *)
(* four-in-a-row, the top h[c] cells of column c emptied.                 *)

Fill(r, c) == (((c \div 2) + r) % 2) + 1

\* as Fill, player 1 holding row 5 of columns 0, 1 and 2
FillThree(r, c) ==
    IF (r = NumRows - 1) /\ (c \in {0, 1, 2}) THEN 1 ELSE Fill(r, c)

RECURSIVE SumTo(_, _)
SumTo(h, c) == IF c < 0 THEN 0 ELSE h[c] + SumTo(h, c - 1)

Heights(total) ==
    {h \in [Cols -> 0 .. total] : SumTo(h, NumCols - 1) <= total}

GeneratedBoards ==
    {[r \in Rows |-> [c \in Cols |-> IF r < h[c] THEN 0 ELSE Fill(r, c)]] :
        h \in Heights(MaxEmpty)}

ScenarioBoards ==
    {[r \in Rows |-> [c \in Cols |->
        IF c = 3 \/ r < h[c] THEN 0 ELSE FillThree(r, c)]] :
        h \in {g \in Heights(MaxExtra) : g[3] = 0}}

InitBoards == GeneratedBoards \cup ScenarioBoards

----------------------------------------------------------------------------
(* The state machine *)

Init ==
    /\ input \in InitBoards
    /\ player_number \in {1, 2}
    /\ heap = <<input>>
    /\ stack = <<>>
    /\ status = "idle"
    /\ result = <<>>
    /\ alg = "none"
    /\ pruned = FALSE

\* lines 35-44: the call of get_alpha_beta_move(board), up to its loop
get_alpha_beta_move ==
    /\ status = "idle"
    /\ LET a == frame_of("get_alpha_beta_move", heap, 1) IN
        /\ heap' = a.heap
        /\ stack' = <<Frame("get_alpha_beta_move", a.ref,
                            get_valid_cols(a.heap[a.ref]),
                            NegInf, PosInf, 0, "loop")>>
    /\ status' = "running"
    /\ alg' = "get_alpha_beta_move"
    /\ UNCHANGED <<input, player_number, result, pruned>>

\* lines 156-162 and 182-184: the call of get_expectimax_move(board), which
\* calls exp_value, up to the loop of exp_value
get_expectimax_move ==
    /\ status = "idle"
    /\ LET a == frame_of("get_expectimax_move", heap, 1)
           b == frame_of("exp_value", a.heap, a.ref)
       IN
        /\ heap' = b.heap
        /\ stack' = <<Frame("get_expectimax_move", a.ref, <<>>,
                            NegInf, PosInf, 0, "call"),
                      Frame("exp_value", b.ref,
                            get_valid_cols(b.heap[b.ref]),
                            NegInf, PosInf, 0, "loop")>>
    /\ status' = "running"
    /\ alg' = "get_expectimax_move"
    /\ UNCHANGED <<input, player_number, result, pruned>>

\* lines 78-79, 116-117, 210-211, 238-239: the static evaluation is returned
Cutoff ==
    /\ status = "running"
    /\ Top.pc = "start"
    /\ CutoffTest(Top)
    /\ stack' = [stack EXCEPT ![Len(stack)] =
                    [@ EXCEPT !.pc = "ret",
                              !.rv = IntVal(evaluation_function(heap[Top.ref]))]]
    /\ UNCHANGED <<input, player_number, heap, status, result, alg, pruned>>

\* One loop iteration up to the recursive call: the drop, depth += 1, and
\* the head of the callee (its copy of the board and its legal columns).
Descend ==
    /\ status = "running"
    /\ \/ Top.pc = "loop"
       \/ Top.pc = "start" /\ ~CutoffTest(Top)
    /\ Top.i <= Len(Top.moves)
    /\ LET f == Top
           col == f.moves[f.i]
           row == get_valid_row(heap[f.ref], col)
           h1 == SetCell(heap, f.ref, row, col, Piece(f.fn))
           depth == f.depth + 1
           a == frame_of(Callee(f.fn), h1, f.ref)
           g == [f EXCEPT !.row = row, !.col = col, !.depth = depth,
                          !.pc = "loop"]
       IN
        /\ heap' = a.heap
        /\ stack' = Append([stack EXCEPT ![Len(stack)] = g],
                           Frame(Callee(f.fn), a.ref,
                                 get_valid_cols(a.heap[a.ref]),
                                 f.alpha, f.beta, depth, "start"))
    /\ UNCHANGED <<input, player_number, status, result, alg, pruned>>

\* lines 95, 133, 221, 250: the loop is over, max_val / min_val is returned
LoopEnd ==
    /\ status = "running"
    /\ Top.fn \in Recursive
    /\ Top.pc = "loop"
    /\ Top.i > Len(Top.moves)
    /\ stack' = [stack EXCEPT ![Len(stack)] =
                    [@ EXCEPT !.pc = "ret", !.rv = Top.val]]
    /\ UNCHANGED <<input, player_number, heap, status, result, alg, pruned>>

\* The rest of the caller's loop iteration once the callee has returned v.
\* Resume(c, v) is the caller's frame after it; the callee's array is gone.
Finished(c) == [c EXCEPT !.i = @ + 1]

ResumeRoot(c, v) ==
    LET alpha == max(c.alpha, v)
    IN  Finished([c EXCEPT !.alpha = alpha,
                           !.select_moves = Append(@, <<alpha, c.col>>)])

ResumeMax(c, v) ==
    LET max_val == max(c.val, v)
    IN  IF max_prunes(max_val, c.beta)
        THEN [c EXCEPT !.val = max_val, !.pc = "ret", !.rv = max_val]
        ELSE Finished([c EXCEPT !.val = max_val, !.alpha = max(@, max_val)])

ResumeMin(c, v) ==
    LET min_val == min(c.val, v)
    IN  IF min_prunes(min_val, c.alpha)
        THEN [c EXCEPT !.val = min_val, !.pc = "ret", !.rv = min_val]
        ELSE Finished([c EXCEPT !.val = min_val, !.beta = min(min_val, @)])

ResumeExpMax(c, v) == Finished([c EXCEPT !.val = max(@, v)])

ResumeExpMin(c, v) ==
    Finished([c EXCEPT !.val = Add(@, Mul(v, expmin_prob(c.moves)))])

Resume(c, v) ==
    CASE c.fn = "alphabeta_max_value" -> ResumeMax(c, v)
      [] c.fn = "alphabeta_min_value" -> ResumeMin(c, v)
      [] c.fn = "expmax_value" -> ResumeExpMax(c, v)
      [] c.fn = "expmin_value" -> ResumeExpMin(c, v)
      [] OTHER -> ResumeRoot(c, v)

\* lines 49-51, 86-93, 124-131, 189-191, 217-219, 246-248
Return ==
    /\ status = "running"
    /\ Len(stack) >= 2
    /\ Top.fn \in Recursive
    /\ Top.pc = "ret"
    /\ LET n == Len(stack)
           c == stack[n - 1]
           g == Resume(c, Top.rv)
           h1 == SubSeq(heap, 1, c.ref)
       IN
        /\ stack' = [SubSeq(stack, 1, n - 1) EXCEPT ![n - 1] = g]
        \* frame[row][col] = 0 is skipped by the early returns
        /\ heap' = IF g.pc = "ret" THEN h1
                   ELSE SetCell(h1, c.ref, c.row, c.col, 0)
        /\ pruned' = (pruned \/ g.pc = "ret")
    /\ UNCHANGED <<input, player_number, status, result, alg>>

\* line 193: exp_value returns select_moves to get_expectimax_move
ExpValueReturn ==
    /\ status = "running"
    /\ Top.fn = "exp_value"
    /\ Top.i > Len(Top.moves)
    /\ stack' = <<[stack[1] EXCEPT !.select_moves = Top.select_moves,
                                   !.pc = "ret"]>>
    /\ heap' = SubSeq(heap, 1, stack[1].ref)
    /\ UNCHANGED <<input, player_number, status, result, alg, pruned>>

\* lines 53-57 and 163-167: best = max(select_moves, ...); return best[1]
Finish ==
    /\ status = "running"
    /\ Len(stack) = 1
    /\ \/ Top.fn = "get_alpha_beta_move" /\ Top.i > Len(Top.moves)
       \/ Top.fn = "get_expectimax_move" /\ Top.pc = "ret"
    /\ LET best == max_select(Top.select_moves) IN
        IF best = <<>>
        THEN status' = "error" /\ result' = <<>>
        ELSE status' = "returned" /\ result' = <<best[1][2]>>
    /\ stack' = <<>>
    /\ heap' = SubSeq(heap, 1, 1)
    /\ UNCHANGED <<input, player_number, alg, pruned>>

Next ==
    \/ get_alpha_beta_move
    \/ get_expectimax_move
    \/ Cutoff
    \/ Descend
    \/ LoopEnd
    \/ Return
    \/ ExpValueReturn
    \/ Finish

Spec == Init /\ [][Next]_vars

----------------------------------------------------------------------------
(* Notions the properties are stated with *)

HasEmptyCell(board, col) == \E r \in Rows : board[r][col] = 0

IsFull(board) == \A c \in Cols : ~HasEmptyCell(board, c)

\* no occupied cell lies above an empty cell of the same column
Gravity(board) ==
    \A c \in Cols : \A r \in 0 .. (NumRows - 2) :
        board[r][c] # 0 => board[r + 1][c] # 0

\* the empty cell of the column with the largest row index
LowestEmptyRow(board, col) ==
    CHOOSE r \in Rows :
        /\ board[r][col] = 0
        /\ \A q \in Rows : q > r => board[q][col] # 0

\* the distinct 4-cell windows of the grid, as sequences of <<row, column>>
HorizontalWindows ==
    {[i \in 1 .. 4 |-> <<r, c + i - 1>>] : r \in Rows, c \in 0 .. (NumCols - 4)}

VerticalWindows ==
    {[i \in 1 .. 4 |-> <<r + i - 1, c>>] : r \in 0 .. (NumRows - 4), c \in Cols}

DownDiagonalWindows ==
    {[i \in 1 .. 4 |-> <<r + i - 1, c + i - 1>>] :
        r \in 0 .. (NumRows - 4), c \in 0 .. (NumCols - 4)}

UpDiagonalWindows ==
    {[i \in 1 .. 4 |-> <<r + 4 - i, c + i - 1>>] :
        r \in 0 .. (NumRows - 4), c \in 0 .. (NumCols - 4)}

Windows ==
    HorizontalWindows \cup VerticalWindows
        \cup DownDiagonalWindows \cup UpDiagonalWindows

Held(w, board, x) ==
    Cardinality({i \in 1 .. 4 : board[w[i][1]][w[i][2]] = x})

HasFour(board, player) == \E w \in Windows : Held(w, board, player) = 4

\* the columns where a piece of player, coming to rest on the lowest empty
\* cell, completes four-in-a-row
WinningDrops(board, player) ==
    {c \in Cols :
        /\ HasEmptyCell(board, c)
        /\ HasFour([board EXCEPT ![LowestEmptyRow(board, c)][c] = player],
                   player)}

\* the scoring table of a window
WindowScore(w, board, player) ==
    LET p == Held(w, board, player)
        o == Held(w, board, get_opponent(player))
    IN  IF p > 0 /\ o > 0 THEN 0
        ELSE IF p = 4 THEN 100 ELSE IF p = 3 THEN 69
        ELSE IF p = 2 THEN 30 ELSE IF p = 1 THEN 5
        ELSE IF o = 4 THEN -95 ELSE IF o = 3 THEN -80
        ELSE IF o = 2 THEN -30 ELSE IF o = 1 THEN -5
        ELSE 0

RECURSIVE SumWindows(_, _, _)
SumWindows(ws, board, player) ==
    IF ws = {} THEN 0
    ELSE LET w == CHOOSE w \in ws : TRUE
         IN  WindowScore(w, board, player)
             + SumWindows(ws \ {w}, board, player)

\* the board after the drop the search simulates
Drop(board, col, piece) ==
    [board EXCEPT ![get_valid_row(board, col)][col] = piece]

SetMax(S) == CHOOSE x \in S : \A y \in S : y <= x

SetMin(S) == CHOOSE x \in S : \A y \in S : x <= y

\* plain minimax over the tree the search walks: no alpha, no beta
RECURSIVE MinimaxMax(_, _), MinimaxMin(_, _)
MinimaxMax(board, depth) ==
    LET m == get_valid_cols(board)
    IN  IF depth >= MAX_DEPTH \/ Len(m) = 0 THEN evaluation_function(board)
        ELSE SetMax({MinimaxMin(Drop(board, m[j], player_number), depth + j) :
                        j \in 1 .. Len(m)})

MinimaxMin(board, depth) ==
    LET m == get_valid_cols(board)
    IN  IF depth >= MAX_DEPTH \/ Len(m) = 0 THEN evaluation_function(board)
        ELSE SetMin({MinimaxMax(Drop(board, m[j],
                                     get_opponent(player_number)), depth + j) :
                        j \in 1 .. Len(m)})

\* the sequence vs with its elements computed once
Computed(vs) == <<>> \o vs

FirstMaximal(v) ==
    CHOOSE k \in 1 .. Len(v) :
        /\ \A j \in 1 .. Len(v) : v[j] <= v[k]
        /\ \A j \in 1 .. (k - 1) : v[j] < v[k]

\* the lowest legal column whose exact MIN-value is maximal
MinimaxColumn(board) ==
    LET m == get_valid_cols(board)
    IN  m[FirstMaximal(Computed([j \in 1 .. Len(m) |->
                MinimaxMin(Drop(board, m[j], player_number), j)]))]

\* expectimax values of the tree the search walks, as exact fractions
RECURSIVE ExpectiMax(_, _), ExpectiMin(_, _), SumSeq(_)
SumSeq(vs) == IF vs = <<>> THEN IntVal(0) ELSE Add(Head(vs), SumSeq(Tail(vs)))

BestOf(vs) ==
    vs[CHOOSE k \in 1 .. Len(vs) : \A j \in 1 .. Len(vs) : Le(vs[j], vs[k])]

ExpectiMax(board, depth) ==
    LET m == get_valid_cols(board)
    IN  IF depth >= MAX_DEPTH \/ Len(m) = 0
        THEN IntVal(evaluation_function(board))
        ELSE BestOf(Computed([j \in 1 .. Len(m) |->
                ExpectiMin(Drop(board, m[j], player_number), depth + j)]))

ExpectiMin(board, depth) ==
    LET m == get_valid_cols(board)
    IN  IF depth >= MAX_DEPTH \/ Len(m) = 0
        THEN IntVal(evaluation_function(board))
        ELSE SumSeq(Computed([j \in 1 .. Len(m) |->
                Mul(ExpectiMax(Drop(board, m[j], get_opponent(player_number)),
                               depth + j),
                    Rat(1, Len(m)))]))

\* the simulated moves that lead to the call in stack[k]
Ply(k) ==
    Cardinality({j \in 1 .. (k - 1) : stack[j].fn # "get_expectimax_move"})

Done == status \in {"returned", "error"}

----------------------------------------------------------------------------
(* Properties *)

\* C1: once get_alpha_beta_move or get_expectimax_move has returned, every
\* cell of the caller's board has the value it had before the call, also
\* when alphabeta_max_value / alphabeta_min_value returned early without
\* resetting the cell they had just filled.
C1_BoardUnchanged == Done => heap[1] = input

C1_Witness ==
    /\ status = "returned"
    /\ pruned
    /\ heap[1] = input

\* C2: on a board with an empty cell, the column either decision call
\* returns is in 0..6 and is not a full column of the board; and the legal
\* columns a function of the search loops over never include a full column
\* of its board.
C2_LegalColumn ==
    /\ (status = "returned" /\ ~IsFull(input)) =>
            /\ result[1] \in Cols
            /\ HasEmptyCell(input, result[1])
    /\ (status = "running" /\ Top.pc = "start") =>
            \A j \in 1 .. Len(Top.moves) :
                HasEmptyCell(heap[Top.ref], Top.moves[j])

C2_Witness ==
    /\ status = "returned"
    /\ alg = "get_expectimax_move"
    /\ ~HasEmptyCell(input, 0)
    /\ result[1] \in Cols
    /\ HasEmptyCell(input, result[1])

\* C3: on a gravity-respecting board where the mover can complete
\* four-in-a-row with one drop, get_alpha_beta_move returns a column whose
\* drop completes four-in-a-row; and when player 1 holds row 5 of columns
\* 0, 1 and 2 and cell (5, 3) is empty, it returns column 3.
C3_TakesImmediateWin ==
    (status = "returned" /\ alg = "get_alpha_beta_move" /\ Gravity(input)) =>
        /\ WinningDrops(input, player_number) # {}
              => result[1] \in WinningDrops(input, player_number)
        /\ (/\ player_number = 1
            /\ \A c \in {0, 1, 2} : input[NumRows - 1][c] = 1
            /\ input[NumRows - 1][3] = 0)
              => result[1] = 3

\* C4: get_alpha_beta_move returns the lowest legal column among those whose
\* exact, unpruned MIN-value is maximal: pruning and the running alpha of
\* the root never change the choice of plain minimax.
C4_SameAsMinimax ==
    (status = "returned" /\ alg = "get_alpha_beta_move")
        => result = <<MinimaxColumn(input)>>

C4_Witness ==
    /\ status = "returned"
    /\ alg = "get_alpha_beta_move"
    /\ pruned
    /\ result = <<MinimaxColumn(input)>>
    /\ result[1] # get_valid_cols(input)[1]

\* C5: for every board, the caller's and those the search builds by
\* simulated drops, get_valid_cols lists columns in strictly ascending
\* order, and lists a column if and only if its cell in row 0 is empty.
C5_ValidColsTopCell ==
    \A k \in 1 .. Len(heap) :
        LET m == get_valid_cols(heap[k]) IN
            /\ \A j \in 1 .. (Len(m) - 1) : m[j] < m[j + 1]
            /\ \A c \in Cols :
                  (\E j \in 1 .. Len(m) : m[j] = c) <=> heap[k][0][c] = 0

\* C6: called on a board without an empty cell, either decision call ends
\* in an error and returns no column.
C6_FullBoardFails ==
    (Done /\ IsFull(input)) => (status = "error" /\ result = <<>>)

C6_Witness ==
    /\ status = "error"
    /\ IsFull(input)
    /\ result = <<>>

\* C7: the row get_valid_row gives for a drop is the lowest empty row of the
\* column, so every board the search builds from a gravity-respecting board
\* is gravity-respecting.
C7_DropsToLowestRow ==
    Gravity(input) =>
        /\ \A k \in 1 .. Len(heap) : Gravity(heap[k])
        /\ \A k \in 1 .. (Len(stack) - 1) :
              stack[k].fn # "get_expectimax_move" =>
                  stack[k].row =
                      LowestEmptyRow([heap[stack[k].ref] EXCEPT
                                        ![stack[k].row][stack[k].col] = 0],
                                     stack[k].col)

\* C8: the value evaluation_function returns for a board is the sum of the
\* table scores of the 69 distinct windows of the grid, each counted once.
C8_EvaluationIsWindowSum ==
    /\ Cardinality(Windows) = 69
    /\ (/\ status = "running"
        /\ Top.fn \in Recursive
        /\ Top.pc = "ret"
        /\ Top.i = 1
        /\ CutoffTest(Top))
          => Top.rv = IntVal(SumWindows(Windows, heap[Top.ref], player_number))

\* C9: a call reached by k simulated moves from the root position runs with
\* depth = k.
C9_DepthIsPly ==
    \A k \in 1 .. Len(stack) :
        (stack[k].fn \in Recursive /\ stack[k].pc = "start")
            => stack[k].depth = Ply(k)

\* C10: an expmin_value call that is not cut off returns the sum, over all
\* its n legal replies, of (value of the MAX node after the reply) / n.
C10_UniformAverage ==
    (/\ status = "running"
     /\ Top.fn = "expmin_value"
     /\ Top.pc = "ret"
     /\ Top.i > Len(Top.moves)
     /\ Len(Top.moves) >= 1)
        => Top.rv = ExpectiMin(heap[Top.ref], Top.depth - Len(Top.moves))

C10_Witness ==
    /\ status = "running"
    /\ Top.fn = "expmin_value"
    /\ Top.pc = "ret"
    /\ Top.i > Len(Top.moves)
    /\ Len(Top.moves) >= 2
    /\ Top.rv.d > 1
    /\ Top.rv = ExpectiMin(heap[Top.ref], Top.depth - Len(Top.moves))

====
